---- MODULE Spec2Model ----
(***************************************************************************)
(* Model of the static-site builder of vslinko.com:                        *)
(*   - the Rebuild Scheduler (watchCommand and its change handler cb),     *)
(*     checked under SpecWatch / FairWatch;                                *)
(*   - the Content Graph Builder (parseGarden and the part of buildCommand *)
(*     that derives the tree and the sitemap list), checked under          *)
(*     SpecGarden.                                                         *)
(* The source modelled is src/unnamed/part_000 (the latest build script);  *)
(* where src/lib.mjs differs in a way the properties below depend on, the  *)
(* variable `version` selects the script that runs.                        *)
(***************************************************************************)
EXTENDS Integers, Sequences, FiniteSets, TLC

VARIABLES
    \* ---- Rebuild Scheduler (watchCommand) ----
    processing,     \* let processing   (part_000:565)
    scheduled,      \* let scheduled    (part_000:566)
    running,        \* the buildCommand executions in flight: records [id, phase]
    started,        \* number of buildCommand executions the scheduler has started
    dist,           \* the output directory: artifact -> id of the build that wrote it
    alive,          \* the watch process is running
    rejectionMode,  \* what the runtime does with an unhandled rejection
    unhandled,      \* number of cb promises rejected with no handler attached
    events,         \* change events delivered so far, per watcher
    during,         \* change events delivered since the latest build start
    unserved,       \* a delivered change event has not yet been followed by a build start
    lastOk,         \* id of the last build that completed successfully
    lastResult,     \* how the latest terminated build ended, with the burst it had seen
    \* ---- Content Graph Builder (parseGarden, buildCommand) ----
    version,            \* which build script runs
    pc,                 \* position of the build in parseGarden / buildCommand
    gardenFiles,        \* result of glob("**/*.md") (part_000:366)
    cursor,             \* index of the next element of the loop pc is in
    seen,               \* what pass 1 read for each enumerated file
    gardenPermalinks,   \* Map title -> canonical URL (part_000:371)
    publicGardenFiles,  \* part_000:372
    backlinks,          \* Map url -> list of source documents (part_000:391)
    parsedGardenFiles,  \* part_000:392
    gardenTree,         \* part_000:488
    urls,               \* the sitemap URL list (part_000:489)
    written,            \* the files under dist/ the garden loops wrote: path -> data
    loader              \* parseGardenFileMeta on one file: position, text, parseMeta's result, tags

wvars == <<processing, scheduled, running, started, dist, alive, rejectionMode,
           unhandled, events, during, unserved, lastOk, lastResult>>
gvars == <<version, pc, gardenFiles, cursor, seen, gardenPermalinks,
           publicGardenFiles, backlinks, parsedGardenFiles,
           gardenTree, urls, written, loader>>
vars == <<wvars, gvars>>

(***************************************************************************)
(* Bounds.                                                                 *)
(***************************************************************************)
MaxEvents == 6
MaxLinks == 2

(***************************************************************************)
(*                          REBUILD SCHEDULER                              *)
(***************************************************************************)
Watchers == {"watcher1", "watcher2"}

\* The awaited steps of buildCommand, in order.
Phases == <<"rimraf", "content", "parseGarden", "pages", "sitemap">>
LastPhase == Len(Phases)

Artifacts == {"static", "pages", "sitemap"}
InitialBuild == 0
Absent == -1

\* The effect on dist of step p of build id.
stepDist(d, id, p) ==
    CASE Phases[p] = "rimraf"      -> [a \in Artifacts |-> Absent]
      [] Phases[p] = "content"     -> [d EXCEPT !["static"] = id]
      [] Phases[p] = "parseGarden" -> d
      [] Phases[p] = "pages"       -> [d EXCEPT !["pages"] = id]
      [] Phases[p] = "sitemap"     -> [d EXCEPT !["sitemap"] = id]

\* The scheduler's own state as one record, so that cb can call itself.
sched == [processing |-> processing, scheduled |-> scheduled,
          running |-> running, started |-> started]

\* if (processing)
BusyNever(s) == FALSE
Busy(s) == s.processing

\* processing = true; await buildCommand()  -- up to the first suspension
startBuild(s) ==
    [s EXCEPT !.processing = TRUE,
              !.started = s.started + 1,
              !.running = s.running \cup {[id |-> s.started + 1, phase |-> 1]}]

\* const cb = async () => { ... }  -- the synchronous part of one call
cbDrop(s) == IF Busy(s) THEN s ELSE startBuild(s)
cb(s) ==
    IF Busy(s) THEN [s EXCEPT !.scheduled = TRUE]
    ELSE startBuild(s)

\* finally { processing = false; if (scheduled) { scheduled = false; cb(); } }
finallyNoRestart(s) ==
    [s EXCEPT !.processing = FALSE, !.scheduled = FALSE]
finallyKeepBusy(s) ==
    IF s.scheduled THEN cb([s EXCEPT !.processing = FALSE, !.scheduled = FALSE])
    ELSE s
finallyRestartAlways(s) ==
    cb([s EXCEPT !.processing = FALSE, !.scheduled = FALSE])
finallyKeepPending(s) == [s EXCEPT !.processing = FALSE]
finally(s) ==
    LET released == [s EXCEPT !.processing = FALSE] IN
    IF released.scheduled THEN cb([released EXCEPT !.scheduled = FALSE])
    ELSE released

\* A rejected promise nobody handles: the runtime either only warns or
\* terminates the process, depending on its version and flags.
RejectionModes == {"warn", "throw"}

applySched(s) ==
    /\ processing' = s.processing
    /\ scheduled' = s.scheduled
    /\ running' = s.running
    /\ started' = s.started

\* History of the change events relative to build starts.
track(s, isEvent) ==
    /\ during' = IF s.started > started THEN 0
                 ELSE IF isEvent THEN during + 1 ELSE during
    /\ unserved' = IF s.started > started THEN FALSE
                   ELSE IF isEvent THEN TRUE ELSE unserved

InitWatchVars ==
    /\ processing = FALSE
    /\ scheduled = FALSE
    /\ running = {}
    /\ started = 0
    /\ dist = [a \in Artifacts |-> InitialBuild]
    /\ alive = TRUE
    /\ rejectionMode \in RejectionModes
    /\ unhandled = 0
    /\ events = [w \in Watchers |-> 0]
    /\ during = 0
    /\ unserved = FALSE
    /\ lastOk = InitialBuild
    /\ lastResult = [id |-> InitialBuild, ok |-> TRUE, burst |-> 0, restarted |-> FALSE]

eventCount == events["watcher1"] + events["watcher2"]

\* watcherN.on("change", cb): one change event is delivered and cb runs up
\* to its first suspension.
Change(w) ==
    /\ alive
    /\ eventCount < MaxEvents
    /\ events' = [events EXCEPT ![w] = @ + 1]
    /\ LET s == cb(sched) IN
        /\ applySched(s)
        /\ track(s, TRUE)
    /\ UNCHANGED <<dist, alive, rejectionMode, unhandled, lastOk, lastResult>>

\* One awaited step of buildCommand, other than the last, completes.
BuildStep(b) ==
    /\ alive
    /\ b \in running
    /\ b.phase < LastPhase
    /\ dist' = stepDist(dist, b.id, b.phase)
    /\ running' = (running \ {b}) \cup {[b EXCEPT !.phase = @ + 1]}
    /\ UNCHANGED <<processing, scheduled, started, alive, rejectionMode,
                   unhandled, events, during, unserved, lastOk, lastResult>>

\* The last step completes, buildCommand returns and cb resumes in finally.
BuildOk(b) ==
    /\ alive
    /\ b \in running
    /\ b.phase = LastPhase
    /\ dist' = stepDist(dist, b.id, b.phase)
    /\ LET s == finally([sched EXCEPT !.running = running \ {b}]) IN
        /\ applySched(s)
        /\ track(s, FALSE)
        /\ lastResult' = [id |-> b.id, ok |-> TRUE, burst |-> during,
                          restarted |-> s.started > started]
    /\ lastOk' = b.id
    /\ UNCHANGED <<alive, rejectionMode, unhandled, events>>

\* The step the build is at throws: buildCommand rejects, cb runs its
\* finally block and then rejects itself; the emitter that called cb has
\* dropped the promise, so the rejection is unhandled.
BuildFail(b) ==
    /\ alive
    /\ b \in running
    /\ LET s == finally([sched EXCEPT !.running = running \ {b}]) IN
        /\ IF rejectionMode = "throw"
           THEN /\ applySched([s EXCEPT !.running = {}])
                /\ alive' = FALSE
           ELSE /\ applySched(s)
                /\ alive' = TRUE
        /\ track(s, FALSE)
        /\ lastResult' = [id |-> b.id, ok |-> FALSE, burst |-> during,
                          restarted |-> s.started > started]
    /\ unhandled' = unhandled + 1
    /\ UNCHANGED <<dist, rejectionMode, events, lastOk>>

\* No file is being loaded.
LoaderIdle == [pc |-> "off"]

InitGardenIdle ==
    /\ version = "part_000"
    /\ pc = "off"
    /\ gardenFiles = <<>>
    /\ cursor = 0
    /\ seen = <<>>
    /\ gardenPermalinks = <<>>
    /\ publicGardenFiles = <<>>
    /\ backlinks = <<>>
    /\ parsedGardenFiles = <<>>
    /\ gardenTree = <<>>
    /\ urls = <<>>
    /\ written = <<>>
    /\ loader = LoaderIdle

InitWatch == InitWatchVars /\ InitGardenIdle

NextWatch ==
    \/ \E w \in Watchers : Change(w) /\ UNCHANGED gvars
    \/ \E b \in running : BuildStep(b) /\ UNCHANGED gvars
    \/ \E b \in running : BuildOk(b) /\ UNCHANGED gvars
    \/ \E b \in running : BuildFail(b) /\ UNCHANGED gvars

SpecWatch == InitWatch /\ [][NextWatch]_vars

\* Every build terminates: a build in flight eventually takes its next step.
BuildProgress == \E b \in running : BuildStep(b) \/ BuildOk(b) \/ BuildFail(b)
FairWatch == SpecWatch /\ WF_vars(BuildProgress /\ UNCHANGED gvars)

(***************************************************************************)
(* Properties of the Rebuild Scheduler.                                    *)
(***************************************************************************)
inflight == Cardinality(running)
terminated == lastResult'.id # lastResult.id
delivered == eventCount' > eventCount

\* C1: under every interleaving of change events from the two watchers and
\* build completions, at most one buildCommand execution started by the
\* scheduler is in flight.
C1_SingleFlight == inflight <= 1

C1_Witness ==
    /\ inflight = 1
    /\ scheduled
    /\ events["watcher1"] > 0
    /\ events["watcher2"] > 0

\* C2: N >= 1 change events that arrive while a build is in progress start
\* no build by themselves and cause exactly one follow-up build, started in
\* the step in which the in-progress build terminates; with no such event
\* the termination starts nothing.
C2_OneFollowUp ==
    [][ /\ (delivered /\ processing) => started' = started
        /\ terminated =>
             /\ started' = started + (IF during >= 1 THEN 1 ELSE 0)
             /\ (during >= 1 /\ alive') => (inflight' = 1 /\ processing')
      ]_vars

C2_Witness ==
    /\ lastResult.burst >= 5
    /\ lastResult.restarted
    /\ started = lastResult.id + 1
    /\ inflight = 1

\* C3: if every build terminates, every delivered change event is followed
\* by a build that begins at or after its delivery.
C3_NoEventDropped == unserved ~> ~unserved

C3_Witness ==
    /\ lastResult.burst >= 1
    /\ ~lastResult.ok
    /\ ~unserved
    /\ started = lastResult.id + 1

\* C4: when buildCommand throws, the busy state is released in the same
\* step: with a pending request a follow-up build starts, without one the
\* scheduler is idle; and a change event delivered to the scheduler idle
\* after a failed build starts a build.
C4_ReleaseOnFailure ==
    [][ /\ (terminated /\ ~lastResult'.ok) =>
             IF scheduled
             THEN started' = started + 1 /\ processing' /\ ~scheduled'
             ELSE started' = started /\ ~processing' /\ ~scheduled'
        /\ (~lastResult.ok /\ ~processing /\ delivered) =>
             (started' = started + 1 /\ processing')
      ]_vars

C4_Witness ==
    /\ ~lastResult.ok
    /\ lastResult.burst = 0
    /\ started = lastResult.id + 1
    /\ processing

\* C5: the error of a failed build does not escape the change handler as an
\* unhandled rejection and does not terminate the watch process.
C5_FailureContained == unhandled = 0 /\ alive

\* C6: after a build that failed, the output directory still holds the
\* complete output of the last successful build.
C6_LastGoodOutputKept ==
    (~lastResult.ok /\ inflight = 0) => dist = [a \in Artifacts |-> lastOk]

(***************************************************************************)
(*                        CONTENT GRAPH BUILDER                            *)
(***************************************************************************)
\* The build scripts that differ in what the properties below depend on.
Versions == {"part_000", "lib.mjs"}

\* Source paths relative to GARDEN_ROOT: directory segments and base name.
pA == [dirs |-> <<>>, base |-> "A"]
pB == [dirs |-> <<>>, base |-> "B"]
pdA == [dirs |-> <<"d">>, base |-> "A"]

\* What glob("**/*.md") can return: the gardens considered.
Gardens == {<<pA, pB>>, <<pA, pdA>>, <<pB, pdA>>}

\* meta.tags as YAML gives it: absent, one string, or a list of strings.
\* A string is the sequence of its tokens, so that a leading "#" or blank
\* is visible to trimLeft and to includes.
TagForms ==
    { [kind |-> "absent", items |-> <<>>],
      [kind |-> "scalar", items |-> << <<"public">> >>],
      [kind |-> "list", items |-> << <<"draft">> >>] }

\* The wiki-links a body can hold: [[A]] and [[X||||||al]].  No file is
\* named X, and A names no public document when none is kept under it.
WikiLinks ==
    { [kind |-> "link", name |-> "A", alias |-> ""],
      [kind |-> "link", name |-> "X", alias |-> "al"] }

\* The other blocks a body can hold: the hidden-section marker, and level-1
\* headings ("# T  T" and an empty "#"), whose text is in the field name.
HiddenMarker == [kind |-> "hidden", name |-> "<!--hidden-->", alias |-> ""]
Headings ==
    { [kind |-> "h1", name |-> "T  T", alias |-> ""],
      [kind |-> "h1", name |-> "", alias |-> ""] }

Bodies == UNION { [1..n -> WikiLinks] : n \in 0..MaxLinks }
MTimes == {1}
PostDate == "2021-01-01"

\* What readFile and stat return for one garden file.
FileContents ==
    [tags : TagForms, marker : BOOLEAN, collection : {"", "posts"},
     body : Bodies, mtime : MTimes]

Undefined == <<>>

RECURSIVE trimLeft(_)
\* String.prototype.trimLeft takes no argument: it strips leading white
\* space, whatever is passed to it.
trimLeft(str) ==
    IF str # <<>> /\ Head(str) = " " THEN trimLeft(Tail(str)) ELSE str

includes(seq, x) == \E i \in 1..Len(seq) : seq[i] = x

RECURSIVE addAll(_, _)
\* .reduce((acc, tag) => acc.add(tag.trimLeft("#")), new Set()), as the
\* array Array.from makes of the set (insertion order, no duplicates).
addAll(acc, items) ==
    IF items = <<>> THEN acc
    ELSE LET tag == trimLeft(Head(items)) IN
         addAll(IF includes(acc, tag) THEN acc ELSE Append(acc, tag), Tail(items))

tagsOf(meta) == addAll(<<>>, meta.items)

\* fileContent.includes("#public"): the raw text, metadata block included.
rawIncludesMarker(c) ==
    \/ c.marker
    \/ \E i \in 1..Len(c.tags.items) :
         \E j \in 1..(Len(c.tags.items[i]) - 1) :
            c.tags.items[i][j] = "#" /\ c.tags.items[i][j + 1] = "public"

\* toLowerCase / slugify(..., {lower: true}) on the names used here.
lower(str) ==
    CASE str = "A" -> "a"
      [] str = "B" -> "b"
      [] str = "C" -> "c"
      [] str = "D" -> "d"
      [] OTHER -> str

lowerAll(dirs) == [i \in 1..Len(dirs) |-> lower(dirs[i])]

\* "/garden" + formatGardenFileUrl("/" + src, slug), as path segments.
formatGardenFileUrl(src, slug) == <<"garden">> \o lowerAll(src.dirs) \o <<slug>>

fullUrl(url) == <<"https://vslinko.com">> \o url

\* parseGardenFileMeta (part_000) / parseGardenMeta (lib.mjs)
parseGardenFileMeta(src, c) ==
    LET slug == lower(src.base)
        url == formatGardenFileUrl(src, slug)
    IN [src |-> src,
        url |-> url,
        canonicalUrl |-> url,
        title |-> src.base,
        mtime |-> c.mtime,
        dirs |-> src.dirs,
        tags |-> tagsOf(c.tags),
        content |-> c.body,
        originalContent |-> c,
        collection |-> c.collection,
        slug |-> slug,
        lang |-> "ru"]

\* parsePost: the post's URL and its localized canonical URL.
parsePost(f) ==
    [f EXCEPT !.url = <<"posts", PostDate, f.slug>>,
              !.canonicalUrl = <<f.lang, "posts", PostDate, f.slug>>]

\* The test that keeps a document: part_000:379, lib.mjs:134 and :362.
isPublicAlways(ver, f) == TRUE
isPublic(ver, f) ==
    IF ver = "lib.mjs"
    THEN includes(f.tags, <<"public">>) \/ rawIncludesMarker(f.originalContent)
    ELSE includes(f.tags, <<"public">>)

\* Map.set
mapSetOnce(m, k, v) == IF k \in DOMAIN m THEN m ELSE (k :> v) @@ m
mapSet(m, k, v) == (k :> v) @@ m
has(m, k) == k \in DOMAIN m
get(m, k) == IF has(m, k) THEN m[k] ELSE Undefined

\* pageResolver of the wiki-link plugin: the permalinks of a page name.
pageResolverAny(permalinks, name) ==
    IF permalinks = <<>> THEN <<>>
    ELSE << permalinks[CHOOSE t \in DOMAIN permalinks : TRUE] >>
pageResolver(permalinks, name) ==
    IF ~has(permalinks, name) THEN <<>> ELSE << permalinks[name] >>

\* The node the plugin makes of one wiki-link: the display text is the
\* alias, or the name when there is none; href is hrefTemplate of the
\* first permalink, and there is none when the resolver returns [].
wikiLinkNode(permalinks, link) ==
    LET found == pageResolver(permalinks, link.name) IN
    [text |-> IF link.alias = "" THEN link.name ELSE link.alias,
     href |-> IF found = <<>> THEN Undefined ELSE found[1]]

RECURSIVE resolvedLinks(_, _)
\* links.push(permalink) for every wiki-link that resolves, in body order.
resolvedLinks(permalinks, body) ==
    IF body = <<>> THEN <<>>
    ELSE (IF Head(body).kind = "link"
          THEN pageResolver(permalinks, Head(body).name) ELSE <<>>)
           \o resolvedLinks(permalinks, Tail(body))

\* String.prototype.indexOf and slice, on a text as the sequence of its blocks.
indexOf(seq, x) ==
    IF includes(seq, x)
    THEN (CHOOSE i \in 1..Len(seq) : seq[i] = x /\ \A j \in 1..(i - 1) : seq[j] # x) - 1
    ELSE -1
slice(seq, from, to) == SubSeq(seq, from + 1, to)

\* The cut at "<!--hidden-->", which part_000 has and lib.mjs has not.
hiddenCutNever(content) == content
hiddenCut(content) ==
    IF version = "part_000" /\ indexOf(content, HiddenMarker) >= 0
    THEN slice(content, 0, indexOf(content, HiddenMarker))
    ELSE content

\* typograf.execute on the texts used here: repeated blanks become one.
typograf(str) == IF str = "T  T" THEN "T T" ELSE str

\* root.children.find((n) => n.type === "heading" && n.depth === 1), as
\* the index of the node, 0 when there is none.
titleNode(children) ==
    IF \E i \in 1..Len(children) : children[i].kind = "h1"
    THEN CHOOSE i \in 1..Len(children) :
            /\ children[i].kind = "h1"
            /\ \A j \in 1..(i - 1) : children[j].kind # "h1"
    ELSE 0

\* root.children.splice(index, 1)
splice(children, i) == SubSeq(children, 1, i - 1) \o SubSeq(children, i + 1, Len(children))

\* A title that is undefined or empty: either is falsy.
NoTitle == ""

\* What the rest of the pipeline makes of one block: a wiki-link becomes
\* an anchor, a heading its text, the marker (where not cut) a comment.
renderNode(permalinks, block) ==
    IF block.kind = "link" THEN wikiLinkNode(permalinks, block)
    ELSE [text |-> typograf(block.name), href |-> Undefined]

parseMarkdown(content, permalinks) ==
    LET cut == hiddenCut(content)
        t == titleNode(cut)
        children == IF t = 0 THEN cut ELSE splice(cut, t)
    IN [title |-> IF t = 0 THEN NoTitle ELSE typograf(cut[t].name),
        links |-> resolvedLinks(permalinks, children),
        content |-> [i \in 1..Len(children) |-> renderNode(permalinks, children[i])]]

\* res.title || file.title
titleOfHeading(resTitle, fileTitle) == resTitle
titleOf(resTitle, fileTitle) == IF resTitle # NoTitle THEN resTitle ELSE fileTitle

\* parseGardenFile / parseMarkdown
parseGardenFile(f, permalinks) ==
    LET res == parseMarkdown(f.content, permalinks) IN
    [src |-> f.src, url |-> f.url, canonicalUrl |-> f.canonicalUrl,
     title |-> titleOf(res.title, f.title),
     mtime |-> f.mtime, dirs |-> f.dirs, tags |-> f.tags,
     originalContent |-> f.originalContent, collection |-> f.collection,
     slug |-> f.slug, lang |-> f.lang,
     content |-> res.content,
     links |-> res.links,
     backlinks |-> Undefined,
     lastmod |-> 0]

pushBacklinksNone(bl, links, src) == bl
RECURSIVE pushBacklinks(_, _, _)
\* for (const linkTo of parsedGardenFile.links) { ...push(parsedGardenFile) }
\* A list entry is the path of the document object it refers to.
pushBacklinks(bl, links, src) ==
    IF links = <<>> THEN bl
    ELSE pushBacklinks(mapSet(bl, Head(links), Append(get(bl, Head(links)), src)),
                       Tail(links), src)

\* The document object a backlink entry refers to.
docOf(files, src) == files[CHOOSE i \in 1..Len(files) : files[i].src = src]

max(a, b) == IF a >= b THEN a ELSE b

RECURSIVE maxMtime(_, _, _)
maxMtime(files, own, srcs) ==
    IF srcs = <<>> THEN own
    ELSE maxMtime(files, max(own, docOf(files, Head(srcs)).mtime), Tail(srcs))

\* for (const file of parsedGardenFiles) { file.backlinks = ...; file.lastmod = ... }
attachBacklinks(files, bl) ==
    [i \in 1..Len(files) |->
        LET fileBacklinks == get(bl, files[i].url) IN
        [files[i] EXCEPT !.backlinks = fileBacklinks,
                         !.lastmod = maxMtime(files, files[i].mtime, fileBacklinks)]]

emptyNode(name) == [name |-> name, folders |-> <<>>, files |-> <<>>]

folderIndexNever(node, dir) == 0
folderIndex(node, dir) ==
    IF \E i \in 1..Len(node.folders) : node.folders[i].name = dir
    THEN CHOOSE i \in 1..Len(node.folders) :
            /\ node.folders[i].name = dir
            /\ \A j \in 1..(i - 1) : node.folders[j].name # dir
    ELSE 0

\* (a variant that pushes every leaf at the node it starts from)
insertFileHere(node, dirs, leaf) == [node EXCEPT !.files = Append(@, leaf)]
RECURSIVE insertFile(_, _, _)
\* The walk of one file's dirs in buildGardenTree, and the push of its leaf.
insertFile(node, dirs, leaf) ==
    IF dirs = <<>> THEN [node EXCEPT !.files = Append(@, leaf)]
    ELSE LET i == folderIndex(node, Head(dirs)) IN
         IF i = 0
         THEN [node EXCEPT !.folders =
                  Append(@, insertFile(emptyNode(Head(dirs)), Tail(dirs), leaf))]
         ELSE [node EXCEPT !.folders[i] = insertFile(@, Tail(dirs), leaf)]

RECURSIVE buildGardenTreeFrom(_, _)
buildGardenTreeFrom(tree, files) ==
    IF files = <<>> THEN tree
    ELSE buildGardenTreeFrom(
            insertFile(tree, Head(files).dirs,
                       [url |-> Head(files).url, title |-> Head(files).title]),
            Tail(files))

\* buildGardenTree; the root is the node without a name.
buildGardenTree(files) == buildGardenTreeFrom(emptyNode(""), files)

RECURSIVE filter(_, _)
filter(files, coll) ==
    IF files = <<>> THEN <<>>
    ELSE (IF (Head(files).collection = "posts") = coll THEN <<Head(files)>> ELSE <<>>)
           \o filter(Tail(files), coll)

sitemapEntry(loc, lastmod, changefreq) ==
    [loc |-> loc, lastmod |-> lastmod, changefreq |-> changefreq]

\* The three fixed entries; their lastmod comes from templates and static
\* files, which are not part of the garden.
homeEntry == sitemapEntry(fullUrl(<<>>), 0, "monthly")
postsEntry == sitemapEntry(fullUrl(<<"posts">>), 0, "daily")
resumeEntry == sitemapEntry(fullUrl(<<"resume", "manager.html">>), 0, "monthly")

postEntriesNone(posts) == <<>>
postEntries(posts) ==
    [i \in 1..Len(posts) |->
        sitemapEntry(fullUrl(posts[i].canonicalUrl), posts[i].mtime, "monthly")]

gardenEntries(files, changefreq) ==
    [i \in 1..Len(files) |->
        sitemapEntry(fullUrl(files[i].canonicalUrl), files[i].lastmod, changefreq)]

\* A file under dist/: the URL it is served at, with its extension.
distPath(url, ext) == [url |-> url, ext |-> ext]

\* What the templates put in a page of the document: its title, its
\* rendered content and its backlinks.
render(file) ==
    [title |-> file.title, content |-> file.content, backlinks |-> file.backlinks]

\* writeFile(dist, result); writeFile(distMd, file.originalContent)
processGardenFile(fs, file) ==
    mapSet(mapSet(fs, distPath(file.url, "html"), render(file)),
           distPath(file.url, "md"), file.originalContent)

\* The four writes of processPost: the page and the source text, each
\* under the post's URL and under its canonical URL.
processPost(fs, post) ==
    mapSet(mapSet(mapSet(mapSet(fs,
        distPath(post.url, "html"), render(post)),
        distPath(post.canonicalUrl, "html"), render(post)),
        distPath(post.url, "md"), post.originalContent),
        distPath(post.canonicalUrl, "md"), post.originalContent)

\* lib.mjs writes the page only.
saveGardenFile(fs, file) == mapSet(fs, distPath(file.url, "html"), render(file))

RECURSIVE forEach(_, _, _)
\* for (const file of files) { await process(file) }, for the three
\* functions that write.
forEach(process, fs, files) ==
    IF files = <<>> THEN fs
    ELSE forEach(process,
                 CASE process = "processPost" -> processPost(fs, Head(files))
                   [] process = "processGardenFile" -> processGardenFile(fs, Head(files))
                   [] process = "saveGardenFile" -> saveGardenFile(fs, Head(files)),
                 Tail(files))

InitGarden ==
    /\ InitWatchVars
    /\ rejectionMode = "warn"
    /\ version \in Versions
    /\ pc = "glob"
    /\ gardenFiles = <<>>
    /\ cursor = 0
    /\ seen = <<>>
    /\ gardenPermalinks = <<>>
    /\ publicGardenFiles = <<>>
    /\ backlinks = <<>>
    /\ parsedGardenFiles = <<>>
    /\ gardenTree = emptyNode("")
    /\ urls = <<>>
    /\ written = <<>>
    /\ loader = LoaderIdle

\* The key of a document in the permalinks: gardenPermalinks.set(parsed.title, ...),
\* where the title is still the one parseGardenFileMeta gave.
permalinkKeyDisplayed(parsed) ==
    titleOf(parseMarkdown(parsed.content, <<>>).title, parsed.title)
permalinkKey(parsed) == parsed.title

\* for (const filePath of gardenFiles): the iteration at index i is the last.
exhaustedAtOnce(i, list) == TRUE
exhausted(i, list) == i = Len(list)

\* const gardenFiles = await glob("**/*.md", ...)
Glob ==
    /\ pc = "glob"
    /\ gardenFiles' \in Gardens
    /\ pc' = "pass1"
    /\ cursor' = 1
    /\ UNCHANGED <<version, seen, gardenPermalinks, publicGardenFiles, backlinks,
                   parsedGardenFiles, gardenTree, urls, written, loader>>

\* One iteration of the first loop of parseGarden: read the file, keep it
\* if it is public, record its permalink.  In lib.mjs the tree is built
\* right after the loop.
Pass1(c) ==
    /\ pc = "pass1"
    /\ LET src == gardenFiles[cursor]
           meta == parseGardenFileMeta(src, c)
           keep == isPublic(version, meta)
           parsed == IF version = "part_000" /\ meta.collection = "posts"
                     THEN parsePost(meta) ELSE meta
           public == IF keep THEN Append(publicGardenFiles, parsed)
                     ELSE publicGardenFiles
           last == exhausted(cursor, gardenFiles)
       IN /\ seen' = Append(seen, [src |-> src, url |-> meta.url, tags |-> meta.tags,
                                   raw |-> [tags |-> c.tags, marker |-> c.marker],
                                   kept |-> keep])
          /\ publicGardenFiles' = public
          /\ gardenPermalinks' =
                IF keep THEN mapSet(gardenPermalinks, permalinkKey(parsed),
                                    parsed.canonicalUrl)
                ELSE gardenPermalinks
          /\ gardenTree' = IF last /\ version = "lib.mjs"
                           THEN buildGardenTree(public) ELSE gardenTree
          /\ IF ~last THEN pc' = "pass1" /\ cursor' = cursor + 1
             ELSE IF public # <<>> THEN pc' = "pass2" /\ cursor' = 1
             ELSE pc' = "pass3" /\ cursor' = 0
    /\ UNCHANGED <<version, gardenFiles, backlinks, parsedGardenFiles, urls, written,
                   loader>>

\* One iteration of the second loop: resolve the wiki-links of one public
\* document against the permalinks, and enter it in the backlinks of every
\* link target.
Pass2 ==
    /\ pc = "pass2"
    /\ LET parsedGardenFile == parseGardenFile(publicGardenFiles[cursor], gardenPermalinks)
       IN /\ backlinks' = pushBacklinks(backlinks, parsedGardenFile.links,
                                        parsedGardenFile.src)
          /\ parsedGardenFiles' = Append(parsedGardenFiles, parsedGardenFile)
    /\ IF cursor < Len(publicGardenFiles)
       THEN pc' = "pass2" /\ cursor' = cursor + 1
       ELSE pc' = "pass3" /\ cursor' = 0
    /\ UNCHANGED <<version, gardenFiles, seen, gardenPermalinks, publicGardenFiles,
                   gardenTree, urls, written, loader>>

\* The third loop of parseGarden (backlinks and lastmod of every parsed
\* document) and, with no suspension in between, buildCommand's split into
\* posts and garden files, the tree and the sitemap list.
Outputs ==
    /\ pc = "pass3"
    /\ LET all == attachBacklinks(parsedGardenFiles, backlinks)
           files == filter(all, FALSE)
           posts == filter(all, TRUE)
       IN /\ parsedGardenFiles' = all
          /\ IF version = "part_000"
             THEN /\ gardenTree' = buildGardenTree(files)
                  /\ urls' = <<homeEntry, postsEntry>> \o postEntries(posts)
                               \o gardenEntries(files, "monthly") \o <<resumeEntry>>
                  /\ written' = forEach("processGardenFile",
                                        forEach("processPost", written, posts), files)
             ELSE /\ gardenTree' = gardenTree
                  /\ urls' = <<homeEntry, postsEntry, resumeEntry>>
                               \o gardenEntries(all, "weekly")
                  /\ written' = forEach("saveGardenFile", written, all)
    /\ pc' = "done"
    /\ UNCHANGED <<version, gardenFiles, cursor, seen, gardenPermalinks,
                   publicGardenFiles, backlinks, loader>>

NextGarden ==
    \/ Glob /\ UNCHANGED wvars
    \/ \E c \in FileContents : Pass1(c) /\ UNCHANGED wvars
    \/ Pass2 /\ UNCHANGED wvars
    \/ Outputs /\ UNCHANGED wvars

SpecGarden == InitGarden /\ [][NextGarden]_vars

(***************************************************************************)
(* Properties of the Content Graph Builder.                                *)
(***************************************************************************)
RECURSIVE stripMarkers(_)
\* A tag with its leading marker characters and blanks removed.
stripMarkers(tag) ==
    IF tag # <<>> /\ Head(tag) \in {"#", " "} THEN stripMarkers(Tail(tag)) ELSE tag

\* The document, as read, carries the visibility tag / the in-body marker.
hasVisibilityTag(raw) ==
    \E i \in 1..Len(raw.tags.items) : stripMarkers(raw.tags.items[i]) = <<"public">>
hasBodyMarker(raw) == raw.marker

RECURSIVE treeUrls(_)
\* The URLs of all leaves of a tree.
treeUrls(node) ==
    {node.files[i].url : i \in 1..Len(node.files)}
      \cup UNION {treeUrls(node.folders[i]) : i \in 1..Len(node.folders)}

range(seq) == {seq[i] : i \in 1..Len(seq)}
occurrences(seq, x) == Cardinality({i \in 1..Len(seq) : seq[i] = x})
sitemapLocs == {urls[i].loc : i \in 1..Len(urls)}
backlinkSources == UNION {range(backlinks[u]) : u \in DOMAIN backlinks}
resolvable(link) == link.name \in DOMAIN gardenPermalinks
display(link) == IF link.alias = "" THEN link.name ELSE link.alias

\* C7: a document with no visibility tag and no in-body marker is, in
\* every state of every build, absent from the permalinks (no title maps to
\* its URL), from the public documents, from the tree, from the sources of
\* the backlinks and from the sitemap list.
C7_PrivateAbsent ==
    \A i \in 1..Len(seen) :
        (~hasVisibilityTag(seen[i].raw) /\ ~hasBodyMarker(seen[i].raw)) =>
            /\ \A t \in DOMAIN gardenPermalinks : gardenPermalinks[t] # seen[i].url
            /\ \A j \in 1..Len(publicGardenFiles) :
                  publicGardenFiles[j].src # seen[i].src
            /\ \A j \in 1..Len(parsedGardenFiles) :
                  parsedGardenFiles[j].src # seen[i].src
            /\ seen[i].url \notin treeUrls(gardenTree)
            /\ seen[i].src \notin backlinkSources
            /\ fullUrl(seen[i].url) \notin sitemapLocs

\* A finished build with a private document whose title a public document
\* links to.
C7_Witness ==
    /\ pc = "done"
    /\ \E i \in 1..Len(seen) :
          /\ ~hasVisibilityTag(seen[i].raw) /\ ~hasBodyMarker(seen[i].raw)
          /\ seen[i].src.base \notin DOMAIN gardenPermalinks
          /\ \E j \in 1..Len(parsedGardenFiles) :
                \E l \in range(parsedGardenFiles[j].originalContent.body) :
                    l.name = seen[i].src.base

\* C8: a document is kept as public if and only if it carries the
\* visibility tag or the in-body marker.
C8_PublicIffTagOrMarker ==
    \A i \in 1..Len(seen) :
        seen[i].kept <=> (hasVisibilityTag(seen[i].raw) \/ hasBodyMarker(seen[i].raw))

\* C9: when the build is done, for all public documents a and b such that
\* the body of a holds one or more wiki-links that resolve to b, the
\* backlinks entry of b's canonical URL holds a exactly once and the
\* outbound links of a hold b's canonical URL.
C9_BacklinkExactlyOnce ==
    pc = "done" =>
        \A j, k \in 1..Len(parsedGardenFiles) :
            LET a == parsedGardenFiles[j]
                b == parsedGardenFiles[k]
            IN (\E l \in range(a.originalContent.body) :
                    resolvable(l) /\ gardenPermalinks[l.name] = b.canonicalUrl)
               => /\ occurrences(get(backlinks, b.canonicalUrl), a.src) = 1
                  /\ includes(a.links, b.canonicalUrl)

TreePaths ==
    { pA,
      [dirs |-> <<"d">>, base |-> "A"],
      [dirs |-> <<"d">>, base |-> "B"],
      [dirs |-> <<"d", "e">>, base |-> "A"],
      [dirs |-> <<"e">>, base |-> "A"],
      [dirs |-> <<"e", "d">>, base |-> "B"] }

\* Gardens of three files, in any enumeration order.
DeepGardens ==
    { g \in [1..3 -> TreePaths] : g[1] # g[2] /\ g[1] # g[3] /\ g[2] # g[3] }

\* Files without wiki-links, public by tag or private, posts or not.
TreeContents ==
    { c \in FileContents : c.body = <<>> /\ ~c.marker /\ c.tags.kind # "list" }

\* The state after glob has returned one of the deep gardens.
InitTree ==
    /\ InitWatchVars
    /\ rejectionMode = "warn"
    /\ version \in Versions
    /\ pc = "pass1"
    /\ gardenFiles \in DeepGardens
    /\ cursor = 1
    /\ seen = <<>>
    /\ gardenPermalinks = <<>>
    /\ publicGardenFiles = <<>>
    /\ backlinks = <<>>
    /\ parsedGardenFiles = <<>>
    /\ gardenTree = emptyNode("")
    /\ urls = <<>>
    /\ written = <<>>
    /\ loader = LoaderIdle

NextTree ==
    \/ \E c \in TreeContents : Pass1(c) /\ UNCHANGED wvars
    \/ Pass2 /\ UNCHANGED wvars
    \/ Outputs /\ UNCHANGED wvars

SpecTree == InitTree /\ [][NextTree]_vars

RECURSIVE distinctFolders(_)
\* No two direct subfolders of a node, at any depth, have the same name.
distinctFolders(node) ==
    /\ \A i, j \in 1..Len(node.folders) :
          i # j => node.folders[i].name # node.folders[j].name
    /\ \A i \in 1..Len(node.folders) : distinctFolders(node.folders[i])

RECURSIVE sum(_)
sum(seq) == IF seq = <<>> THEN 0 ELSE Head(seq) + sum(Tail(seq))

RECURSIVE leafCount(_)
leafCount(node) ==
    Len(node.files) + sum([i \in 1..Len(node.folders) |-> leafCount(node.folders[i])])

RECURSIVE folderCount(_)
folderCount(node) ==
    Len(node.folders) + sum([i \in 1..Len(node.folders) |-> folderCount(node.folders[i])])

RECURSIVE leavesAt(_, _)
\* The leaves of the folder that the segments dirs lead to from node: those
\* of every folder of that path, should a name occur twice.
leavesAt(node, dirs) ==
    IF dirs = <<>> THEN [i \in 1..Len(node.files) |-> node.files[i].url]
    ELSE LET next == {i \in 1..Len(node.folders) : node.folders[i].name = Head(dirs)}
         IN IF next = {} THEN <<>>
            ELSE leavesAt(node.folders[CHOOSE i \in next : TRUE], Tail(dirs))

\* The documents the build puts in the tree: part_000 leaves the posts out.
isPost(f) == f.collection = "posts"
treeDocuments ==
    IF version = "part_000" THEN filter(parsedGardenFiles, FALSE) ELSE parsedGardenFiles

\* The directory prefixes of the documents in the tree.
RECURSIVE prefixes(_)
prefixes(dirs) ==
    IF dirs = <<>> THEN {} ELSE {dirs} \cup prefixes(SubSeq(dirs, 1, Len(dirs) - 1))
treePrefixes == UNION {prefixes(treeDocuments[i].dirs) : i \in 1..Len(treeDocuments)}

\* C11: in every tree the build makes, the direct subfolders of every
\* folder have pairwise distinct names, and the tree has exactly one folder
\* per directory prefix of the documents in it.
C11_OneFolderPerSegment ==
    /\ distinctFolders(gardenTree)
    /\ pc = "done" => folderCount(gardenTree) = Cardinality(treePrefixes)

\* A finished build with two documents in one directory and a third below it.
C11_Witness ==
    /\ pc = "done"
    /\ \E i, j, k \in 1..Len(treeDocuments) :
          /\ i # j
          /\ treeDocuments[i].dirs = treeDocuments[j].dirs
          /\ Len(treeDocuments[k].dirs) = 2
          /\ SubSeq(treeDocuments[k].dirs, 1, 1) = treeDocuments[i].dirs

LinkA == [kind |-> "link", name |-> "A", alias |-> ""]
pdC == [dirs |-> <<"d">>, base |-> "C"]

\* A.md enumerated first, between the others, or last.
LastmodGardens == {<<pA, pB, pdC>>, <<pB, pA, pdC>>, <<pB, pdC, pA>>}

\* Public files, posts or not, that link to A or to nothing, of three ages.
LastmodContents ==
    [tags : {[kind |-> "scalar", items |-> << <<"public">> >>]},
     marker : {FALSE}, collection : {"", "posts"},
     body : {<<>>, <<LinkA>>}, mtime : {1, 2, 3}]

\* The state after glob has returned one of the gardens given.
globbed(gardens) ==
    /\ InitWatchVars
    /\ rejectionMode = "warn"
    /\ version \in Versions
    /\ pc = "pass1"
    /\ gardenFiles \in gardens
    /\ cursor = 1
    /\ seen = <<>>
    /\ gardenPermalinks = <<>>
    /\ publicGardenFiles = <<>>
    /\ backlinks = <<>>
    /\ parsedGardenFiles = <<>>
    /\ gardenTree = emptyNode("")
    /\ urls = <<>>
    /\ written = <<>>
    /\ loader = LoaderIdle

InitLastmod == globbed(LastmodGardens)

NextLastmod ==
    \/ \E c \in LastmodContents : Pass1(c) /\ UNCHANGED wvars
    \/ Pass2 /\ UNCHANGED wvars
    \/ Outputs /\ UNCHANGED wvars

SpecLastmod == InitLastmod /\ [][NextLastmod]_vars

\* max(own mtime, mtimes of the documents in the Backlink Index entry of the
\* URL that links to the document resolve to).
freshness(d) == maxMtime(parsedGardenFiles, d.mtime, get(backlinks, d.canonicalUrl))

\* C13: the lastmod computed for a public document, and the one published in
\* its sitemap entry, is the maximum of its own mtime and the mtimes of the
\* documents in its backlink list (its own mtime when there are none).
C13_LastmodIsMax ==
    pc = "done" =>
        \A i \in 1..Len(parsedGardenFiles) :
            LET d == parsedGardenFiles[i] IN
            /\ d.lastmod = freshness(d)
            /\ \E k \in 1..Len(urls) :
                  /\ urls[k].loc = fullUrl(d.canonicalUrl)
                  /\ urls[k].lastmod = freshness(d)

(***************************************************************************)
(* The order of the passes.                                                *)
(***************************************************************************)
resolving == pc = "pass2" \/ parsedGardenFiles # <<>>

\* The position of a source path in the enumeration.
position(src) == CHOOSE i \in 1..Len(gardenFiles) : gardenFiles[i] = src

\* C14: no document is resolved before pass 1 has read every enumerated
\* file; the permalinks every resolved document was resolved against are
\* the complete ones, those of all public documents, unchanged since; so a
\* link from a document to a public document enumerated after it resolves.
C14_Pass1BeforePass2 ==
    resolving =>
        /\ Len(seen) = Len(gardenFiles)
        /\ \A i \in 1..Len(publicGardenFiles) :
              has(gardenPermalinks, publicGardenFiles[i].title)
        /\ \A j \in 1..Len(parsedGardenFiles) :
              LET a == parsedGardenFiles[j] IN
              /\ a.links = resolvedLinks(gardenPermalinks, a.originalContent.body)
              /\ \A k \in 1..Len(publicGardenFiles) :
                    LET b == publicGardenFiles[k] IN
                    (/\ position(a.src) < position(b.src)
                     /\ \E l \in range(a.originalContent.body) : l.name = b.title)
                    => includes(a.links, gardenPermalinks[b.title])

\* A finished build in which the first enumerated document links to the
\* second, and the link has resolved to the second's canonical URL.
C14_Witness ==
    /\ pc = "done"
    /\ \E j, k \in 1..Len(parsedGardenFiles) :
          LET a == parsedGardenFiles[j]
              b == parsedGardenFiles[k]
          IN /\ a.src = gardenFiles[1]
             /\ b.src = gardenFiles[2]
             /\ \E l \in range(a.originalContent.body) : l.name = b.title
             /\ includes(a.links, b.canonicalUrl)

unresolved == Len(publicGardenFiles) - Len(parsedGardenFiles)

RenderGardens == {<<pA, pB>>, <<pB, pA>>}

\* [[T T]]: the title that the heading "# T  T" gives a document.
LinkT == [kind |-> "link", name |-> "T T", alias |-> ""]

RenderBlocks == {LinkA, LinkT, HiddenMarker} \cup Headings

\* Bodies of at most two blocks.
RenderBodies == {<<>>} \cup {<<x>> : x \in RenderBlocks}
                  \cup {<<x, y>> : x, y \in RenderBlocks}

\* Public files, posts or not.
RenderContents ==
    [tags : {[kind |-> "scalar", items |-> << <<"public">> >>]},
     marker : {FALSE}, collection : {"", "posts"},
     body : RenderBodies, mtime : MTimes]

InitRender == globbed(RenderGardens)

NextRender ==
    \/ \E c \in RenderContents : Pass1(c) /\ UNCHANGED wvars
    \/ Pass2 /\ UNCHANGED wvars
    \/ Outputs /\ UNCHANGED wvars

SpecRender == InitRender /\ [][NextRender]_vars

\* The public part of a text: what precedes the first hidden-section marker.
publicPart(text) ==
    IF includes(text, HiddenMarker)
    THEN SubSeq(text, 1, indexOf(text, HiddenMarker)) ELSE text

\* The hidden part of a text: what follows the first hidden-section marker.
hiddenTail(text) ==
    IF includes(text, HiddenMarker)
    THEN SubSeq(text, indexOf(text, HiddenMarker) + 2, Len(text)) ELSE <<>>

\* The files written for a document: those at its URL and its canonical URL.
filesOf(d) == {p \in DOMAIN written : p.url \in {d.url, d.canonicalUrl}}

\* C16: what follows the first hidden-section marker of a public document
\* is in none of the files written for it: the source file written beside
\* the page has nothing after a marker, and the page has no node beyond
\* the blocks that precede the marker.
C16_HiddenTailPrivate ==
    \A j \in 1..Len(parsedGardenFiles) :
        LET d == parsedGardenFiles[j]
            shown == publicPart(d.originalContent.body)
        IN \A p \in filesOf(d) :
              IF p.ext = "md" THEN hiddenTail(written[p].body) = <<>>
              ELSE Len(written[p].content) <= Len(shown)

\* The body, as the renderer sees it, has no wiki-link and no level-1 heading.
plain(d) ==
    \A i \in 1..Len(hiddenCut(d.originalContent.body)) :
        hiddenCut(d.originalContent.body)[i].kind \notin {"link", "h1"}

\* C19: a rendered document whose body has no wiki-link and no level-1
\* heading has the base name of its file as title.
C19_TitleDefaultsToBaseName ==
    \A j \in 1..Len(parsedGardenFiles) :
        plain(parsedGardenFiles[j]) =>
            parsedGardenFiles[j].title = parsedGardenFiles[j].src.base

\* A finished build with a document with no link and no heading, titled by
\* its file name, beside one that its heading has retitled.
C19_Witness ==
    /\ pc = "done"
    /\ \E j, k \in 1..Len(parsedGardenFiles) :
          /\ plain(parsedGardenFiles[j])
          /\ parsedGardenFiles[j].title = parsedGardenFiles[j].src.base
          /\ parsedGardenFiles[k].title = "T T"

(***************************************************************************)
(* The Document Loader on raw texts: parseMeta and the tags.               *)
(***************************************************************************)
\* A text is the sequence of its rows, what split("\n") gives; MaxRows is
\* the length of the longest text considered.
MaxRows == 4

Delimiter == "---"

\* Rows of a metadata block that give meta.tags.
TagRows ==
    { "tags: public",
      "tags: '#public'",
      "tags: ' public'",
      "tags: ['#public', public, public]" }

LoaderRows == {Delimiter, "text"} \cup TagRows

NoTags == [kind |-> "absent", items |-> <<>>]

\* The value YAML gives to the key tags of a row.
yamlTags(row) ==
    CASE row = "tags: public" ->
            [kind |-> "scalar", items |-> << <<"public">> >>]
      [] row = "tags: '#public'" ->
            [kind |-> "scalar", items |-> << <<"#", "public">> >>]
      [] row = "tags: ' public'" ->
            [kind |-> "scalar", items |-> << <<" ", "public">> >>]
      [] row = "tags: ['#public', public, public]" ->
            [kind |-> "list",
             items |-> << <<"#", "public">>, <<"public">>, <<"public">> >>]

\* What meta can be: the object {} that parseMeta starts with or a map
\* YAML.parse returns; null, for an empty block; a string, for a block of
\* plain text, whose properties are all undefined.
EmptyMeta == [kind |-> "map", tags |-> NoTags]
Null == [kind |-> "null", tags |-> NoTags]
PlainScalar == [kind |-> "string", tags |-> NoTags]

\* YAML.parse(metaContent.join("\n")), on the blocks considered: no row,
\* rows of plain text, or one tags row.
validBlock(block) ==
    \/ \A i \in 1..Len(block) : block[i] = "text"
    \/ Len(block) = 1 /\ block[1] \in TagRows
YAMLparse(block) ==
    IF block = <<>> THEN Null
    ELSE IF \A i \in 1..Len(block) : block[i] = "text" THEN PlainScalar
    ELSE [kind |-> "map", tags |-> yamlTags(block[1])]

\* rows.join("\n"): no row gives the empty string, whose only row is empty.
join(rows) == IF rows = <<>> THEN <<"">> ELSE rows

parseMetaNull(content) == [meta |-> Null, content |-> content]
parseMeta(content) ==
    LET rows == content
        till == indexOf(slice(rows, 1, Len(rows)), Delimiter)
    IN IF rows[1] = Delimiter /\ till >= 0
       THEN [meta |-> YAMLparse(slice(rows, 1, till + 1)),
             content |-> join(slice(rows, till + 2, Len(rows)))]
       ELSE [meta |-> EmptyMeta, content |-> content]

\* The texts a file can hold.
Texts ==
    { t \in UNION { [1..n -> LoaderRows] : n \in 1..MaxRows } :
        LET till == indexOf(slice(t, 1, Len(t)), Delimiter) IN
        (t[1] = Delimiter /\ till >= 0) => validBlock(slice(t, 1, till + 1)) }

\* readFile has returned the text of the file.
InitLoader ==
    /\ InitWatchVars
    /\ rejectionMode = "warn"
    /\ version \in Versions
    /\ pc = "pass1"
    /\ gardenFiles = <<pA>>
    /\ cursor = 1
    /\ seen = <<>>
    /\ gardenPermalinks = <<>>
    /\ publicGardenFiles = <<>>
    /\ backlinks = <<>>
    /\ parsedGardenFiles = <<>>
    /\ gardenTree = emptyNode("")
    /\ urls = <<>>
    /\ written = <<>>
    /\ \E t \in Texts :
          loader = [pc |-> "read", fileContent |-> t, meta |-> EmptyMeta,
                    content |-> <<>>, tags |-> <<>>]

\* const { meta, content } = parseMeta(fileContent)
ParseMeta ==
    /\ loader.pc = "read"
    /\ LET res == parseMeta(loader.fileContent) IN
       loader' = [loader EXCEPT !.pc = "parsed", !.meta = res.meta,
                                !.content = res.content]
    /\ UNCHANGED <<version, pc, gardenFiles, cursor, seen, gardenPermalinks,
                   publicGardenFiles, backlinks, parsedGardenFiles,
                   gardenTree, urls, written>>

\* const tags = Array.from(...meta.tags...): reading a property of null
\* throws a TypeError, and the build fails.
Tags ==
    /\ loader.pc = "parsed"
    /\ IF loader.meta.kind = "null"
       THEN loader' = [loader EXCEPT !.pc = "failed"]
       ELSE loader' = [loader EXCEPT !.pc = "loaded",
                                     !.tags = tagsOf(loader.meta.tags)]
    /\ UNCHANGED <<version, pc, gardenFiles, cursor, seen, gardenPermalinks,
                   publicGardenFiles, backlinks, parsedGardenFiles,
                   gardenTree, urls, written>>

NextLoader ==
    \/ ParseMeta /\ UNCHANGED wvars
    \/ Tags /\ UNCHANGED wvars

SpecLoader == InitLoader /\ [][NextLoader]_vars

\* The text opens a metadata block that no later row closes.
unclosed(text) ==
    /\ text[1] = Delimiter
    /\ \A i \in 2..Len(text) : text[i] # Delimiter

\* C17: of a text whose first row is the delimiter and that has no later
\* delimiter row, parseMeta returns the empty metadata and the whole text
\* as content, and the load goes on without error, to an empty tag list.
C17_UnclosedBlockIsNoMetadata ==
    (loader.pc \in {"parsed", "loaded", "failed"} /\ unclosed(loader.fileContent)) =>
        /\ loader.meta = EmptyMeta
        /\ loader.content = loader.fileContent
        /\ loader.pc # "failed"
        /\ loader.pc = "loaded" => loader.tags = <<>>

\* A file loaded from a text with an unclosed block that holds a tags row.
C17_Witness ==
    /\ loader.pc = "loaded"
    /\ unclosed(loader.fileContent)
    /\ \E i \in 2..Len(loader.fileContent) : loader.fileContent[i] \in TagRows

\* C18: the tags of a loaded document are the values of meta.tags (none
\* when absent, one for a scalar, each element of a list) with the leading
\* "#" (and blanks) stripped, with no duplicate.
C18_TagsStripped ==
    loader.pc = "loaded" =>
        /\ range(loader.tags) =
              {stripMarkers(loader.meta.tags.items[i]) :
                  i \in 1..Len(loader.meta.tags.items)}
        /\ Cardinality(range(loader.tags)) = Len(loader.tags)

(***************************************************************************)
(* The sitemap.                                                            *)
(***************************************************************************)
fixedLocs == {homeEntry.loc, postsEntry.loc, resumeEntry.loc}
kept == {i \in 1..Len(seen) : seen[i].kept}
sameUrl(d) ==
    {j \in 1..Len(parsedGardenFiles) :
        parsedGardenFiles[j].canonicalUrl = d.canonicalUrl}

\* C20: the sitemap of a finished build has, besides the three fixed
\* pages, one entry per public document, garden file or post, under the
\* document's canonical URL (as many entries under a URL as public documents
\* have it), each with a lastmod and a changefreq, and none for a document
\* that is not public.
C20_SitemapListsPublicOnce ==
    pc = "done" =>
        /\ Len(parsedGardenFiles) = Cardinality(kept)
        /\ Len(urls) = Cardinality(fixedLocs) + Len(parsedGardenFiles)
        /\ \A j \in 1..Len(parsedGardenFiles) :
              LET d == parsedGardenFiles[j] IN
              Cardinality({k \in 1..Len(urls) : urls[k].loc = fullUrl(d.canonicalUrl)})
                  = Cardinality(sameUrl(d))
        /\ \A k \in 1..Len(urls) :
              urls[k].loc \notin fixedLocs =>
                  /\ urls[k].lastmod \in MTimes
                  /\ urls[k].changefreq \in {"monthly", "weekly"}
        /\ \A i \in 1..Len(seen) :
              ~seen[i].kept => fullUrl(seen[i].url) \notin sitemapLocs

\* A finished build of part_000 with a public post and a public garden file.
C20_Witness ==
    /\ pc = "done"
    /\ version = "part_000"
    /\ \E j, k \in 1..Len(parsedGardenFiles) :
          isPost(parsedGardenFiles[j]) /\ ~isPost(parsedGardenFiles[k])

(***************************************************************************)
(* Bursts of change events.                                                *)
(***************************************************************************)
\* The first build has ended, and all change events so far were one burst:
\* the event that started it at idle and those delivered while it ran.
burstFromIdle ==
    /\ lastResult.id = 1
    /\ lastResult.burst >= 1
    /\ eventCount = lastResult.burst + 1

\* C21 (as claimed): a burst of two or more change events from idle gives
\* one build.
C21_BurstGivesOneBuild == burstFromIdle => started = 1

\* C21 (amended): a burst of two or more change events from idle gives two
\* builds, whatever its length: the one its first event starts, and one
\* follow-up for all the others, started when the first ends, with no
\* request left pending.
C21_BurstGivesTwoBuilds ==
    burstFromIdle =>
        /\ started = 2
        /\ lastResult.restarted
        /\ ~scheduled
        /\ processing
        /\ alive => inflight <= 1

\* A burst of three or more events, and the follow-up build started.
C21_Witness ==
    /\ burstFromIdle
    /\ lastResult.burst >= 2
    /\ started = 2
    /\ inflight = 1

\* The URL that wiki-links to the title of d resolve to.
linkTarget(d) == get(gardenPermalinks, d.src.base)

\* C22: the backlink list attached to a public document, post or not, is
\* the backlinks entry under the URL that the permalinks map its title to.
C22_AttachedListIsIndexEntry ==
    pc = "done" =>
        \A j \in 1..Len(parsedGardenFiles) :
            parsedGardenFiles[j].backlinks
                = get(backlinks, linkTarget(parsedGardenFiles[j]))

(***************************************************************************)
(* Titles shared by several public documents.                              *)
(***************************************************************************)
\* The public documents that pass 1 kept under the title t, by position.
titled(t) == {i \in 1..Len(publicGardenFiles) : publicGardenFiles[i].title = t}

\* The canonical URL of the latest of them in enumeration order.
latest(t) ==
    publicGardenFiles[CHOOSE i \in titled(t) : \A j \in titled(t) : j <= i].canonicalUrl

\* C23: once pass 1 has ended, the permalinks map every title of a public
\* document to the URL of the latest public document with that title, and
\* every wiki-link to the title, in whatever document, has that URL as href
\* and as outbound link.
C23_LaterTitleWins ==
    resolving =>
        \A k \in 1..Len(publicGardenFiles) :
            LET t == publicGardenFiles[k].title IN
            /\ get(gardenPermalinks, t) = latest(t)
            /\ \A j \in 1..Len(parsedGardenFiles) :
                  LET d == parsedGardenFiles[j]
                      body == d.originalContent.body
                  IN \A i \in 1..Len(body) :
                        body[i].name = t =>
                            /\ d.content[i].href = latest(t)
                            /\ includes(d.links, latest(t))

\* A finished build with two public documents of one title, the earlier of
\* which links to the title: the link leads to the later one.
C23_Witness ==
    /\ pc = "done"
    /\ \E j, k \in 1..Len(parsedGardenFiles) :
          LET a == parsedGardenFiles[j]
              b == parsedGardenFiles[k]
          IN /\ j < k
             /\ a.src.base = b.src.base
             /\ a.canonicalUrl # b.canonicalUrl
             /\ \E i \in 1..Len(a.content) :
                   /\ a.originalContent.body[i].name = a.src.base
                   /\ a.content[i].href = b.canonicalUrl

(***************************************************************************)
(* Wiki-links in the hidden section.                                       *)
(***************************************************************************)
\* The outbound links of the part of d's body before the hidden marker.
visibleLinks(d) == resolvedLinks(gardenPermalinks, publicPart(d.originalContent.body))

\* A wiki-link of d's body that stands after the first hidden marker and
\* names a public document.
hiddenLink(d) ==
    \E i \in 1..Len(hiddenTail(d.originalContent.body)) :
        /\ hiddenTail(d.originalContent.body)[i].kind = "link"
        /\ has(gardenPermalinks, hiddenTail(d.originalContent.body)[i].name)

\* C24: in part_000, a wiki-link after the first hidden-section marker is
\* not resolved: the outbound links of a document are those of the part
\* before the marker, and the backlinks hold the document under a URL as
\* often as that part links to it, and no more.
C24_HiddenLinkUnresolved ==
    version = "part_000" =>
        \A j \in 1..Len(parsedGardenFiles) :
            LET d == parsedGardenFiles[j] IN
            /\ d.links = visibleLinks(d)
            /\ \A u \in DOMAIN backlinks :
                  occurrences(backlinks[u], d.src) = occurrences(visibleLinks(d), u)

\* A finished build of part_000 with a document whose only wiki-link, to a
\* public document, is hidden: no outbound link, no backlink.
C24_Witness ==
    /\ pc = "done"
    /\ version = "part_000"
    /\ \E j \in 1..Len(parsedGardenFiles) :
          /\ hiddenLink(parsedGardenFiles[j])
          /\ parsedGardenFiles[j].links = <<>>
          /\ parsedGardenFiles[j].src \notin backlinkSources

(***************************************************************************)
(* The pending request and the end of a run of the scheduler.              *)
(***************************************************************************)
\* C25: between two executions of the handler, a request is pending only
\* while a build is in flight: scheduled implies processing.
C25_PendingOnlyWhileBuilding == scheduled => processing

\* A request is pending, and a build is in flight.
C25_Witness ==
    /\ scheduled
    /\ processing
    /\ inflight = 1
    /\ during >= 2

idle == ~processing /\ ~scheduled

\* Every build the scheduler has started has ended: builds end in the
\* order they start, and lastResult is that of the latest to end.
allEnded == lastResult.id = started

\* C26: with the finitely many change events of a run, the scheduler has
\* always started at most as many builds as events have arrived, and at
\* least one if any has; whenever every started build has ended it is idle
\* with no pending request; and if every build ends, it ends up idle for
\* good.
C26_EndsIdleWithinBudget ==
    /\ [](started <= eventCount)
    /\ [](eventCount >= 1 => started >= 1)
    /\ [](allEnded => idle /\ inflight = 0)
    /\ ([]<>allEnded) => <>[](idle /\ allEnded)

\* The scheduler is idle after several builds that served more events than
\* there were builds.
C26_Witness ==
    /\ idle
    /\ allEnded
    /\ started >= 2
    /\ eventCount > started

(***************************************************************************)
(* The title that wiki-links resolve against.                              *)
(***************************************************************************)
baseNames == {publicGardenFiles[i].src.base : i \in 1..Len(publicGardenFiles)}

\* The wiki-links of the part of d's body that the renderer sees.
linkNames(d) ==
    LET seenBody == hiddenCut(d.originalContent.body) IN
    {seenBody[i].name : i \in {k \in 1..Len(seenBody) : seenBody[k].kind = "link"}}

\* C27: wiki-links resolve against the file base names of the public
\* documents, whatever title a level-1 heading has given them: a link to
\* the base name of a public document adds its URL to the outbound links,
\* also when a heading has retitled it, and a link to a heading title that
\* is no base name resolves to nothing.
C27_ResolvesByBaseName ==
    resolving =>
        /\ DOMAIN gardenPermalinks = baseNames
        /\ \A j \in 1..Len(parsedGardenFiles) :
              LET a == parsedGardenFiles[j] IN
              /\ \A k \in 1..Len(publicGardenFiles) :
                    publicGardenFiles[k].src.base \in linkNames(a) =>
                        includes(a.links, gardenPermalinks[publicGardenFiles[k].src.base])
              /\ range(a.links) =
                    {gardenPermalinks[n] : n \in linkNames(a) \cap baseNames}
              /\ \A n \in linkNames(a) \ baseNames :
                    pageResolver(gardenPermalinks, n) = <<>>

\* A finished build in which a heading has retitled A.md to "T T" and
\* another document links to A and to T T: the first link leads to A.md,
\* the second nowhere.
C27_Witness ==
    /\ pc = "done"
    /\ \E j, k \in 1..Len(parsedGardenFiles) :
          LET a == parsedGardenFiles[j]
              b == parsedGardenFiles[k]
          IN /\ j # k
             /\ b.src.base = "A"
             /\ b.title = "T T"
             /\ linkNames(a) = {"A", "T T"}
             /\ a.links = <<b.canonicalUrl>>

(***************************************************************************)
(* The empty metadata block.                                               *)
(***************************************************************************)
\* The text opens with a delimiter row that the next row closes.
emptyBlock(text) == Len(text) >= 2 /\ text[1] = Delimiter /\ text[2] = Delimiter

\* C28: of a text whose opening delimiter row is immediately followed by
\* the closing one, the loader yields the empty metadata and the remaining
\* rows as the body, and the tag extraction completes, with no tags.
C28_EmptyBlockLoads ==
    emptyBlock(loader.fileContent) =>
        /\ loader.pc # "failed"
        /\ loader.pc \in {"parsed", "loaded"} =>
              /\ loader.meta = EmptyMeta
              /\ loader.content =
                    join(slice(loader.fileContent, 2, Len(loader.fileContent)))
        /\ loader.pc = "loaded" => loader.tags = <<>>

====
